---- MODULE Spec2Model ----
(***************************************************************************)
(* Model of static/script.js of the medical stock and expiry tracker:      *)
(*   onDaysChange        (lines 1-4)   submit the "daysForm" form           *)
(*   onUploaderSubmit    (lines 6-21)  confirm / guard a delete submission  *)
(*   DOMContentLoaded    (lines 24-42) attach the "All Stock" row filter    *)
(* Strings are sequences of one-character strings, so that trimming,       *)
(* lowercasing and substring search are computed, not assumed.             *)
(***************************************************************************)
EXTENDS Integers, Sequences, FiniteSets

VARIABLES
    searchPresent,    \* the page has an element with id "searchAll"
    tbodyPresent,     \* the page has an element with id "allStockBody"
    loaded,           \* DOMContentLoaded has fired
    attached,         \* the input listener of line 29 is attached
    tbody,            \* the tr elements currently inside the table body
    rows,             \* the snapshot of line 28
    display,          \* row.style.display of every tr element
    searchValue,      \* search.value
    everHid,          \* history: the filter has left some row hidden
    again,            \* history: the last input event repeated the query before it
    daysFormPresent,  \* the page has an element with id "daysForm"
    daysSubmits,      \* number of form.submit() calls of line 3
    fields,           \* named controls the uploader form has
    required,         \* controls that carry the "required" attribute
    checked,          \* value of the checked "action" radio, or "none"
    medValue,         \* form.medicine_name.value
    batchValue,       \* form.batch_id.value
    ret,              \* how the last onUploaderSubmit call ended
    defaultPrevented, \* e.defaultPrevented of the last submit event
    dialog,           \* the confirm() of the last call and its answer
    confirmMsg,       \* <<batch, med>> interpolated into its message
    deleteDone,       \* history: a delete submission was confirmed and let through
    lastEvt           \* the last event the page's controls and handlers saw

filterVars == <<searchPresent, tbodyPresent, loaded, attached, tbody, rows,
                display, searchValue, everHid, again>>
daysVars == <<daysFormPresent, daysSubmits>>
formVars == <<fields, required, checked, medValue, batchValue, ret,
              defaultPrevented, dialog, confirmMsg, deleteDone>>
vars == <<filterVars, daysVars, formVars, lastEvt>>

----------------------------------------------------------------------------
(* Bounds *)

MaxRows == 3
MaxQueryLen == 2
MaxSubmits == 2

----------------------------------------------------------------------------
(* Text *)

Space == " "

\* String.prototype.toLowerCase on the characters the model uses.
LowerChar(c) ==
    CASE c = "P" -> "p"
      [] c = "B" -> "b"
      [] c = "I" -> "i"
      [] c = "V" -> "v"
      [] OTHER -> c

ToLowerCase(s) == [i \in 1..Len(s) |-> LowerChar(s[i])]

RECURSIVE TrimStart(_)
TrimStart(s) ==
    IF s # <<>> /\ Head(s) = Space THEN TrimStart(Tail(s)) ELSE s

RECURSIVE TrimEnd(_)
TrimEnd(s) ==
    IF s # <<>> /\ s[Len(s)] = Space THEN TrimEnd(SubSeq(s, 1, Len(s) - 1)) ELSE s

TrimStartOnly(s) == TrimStart(s)

\* String.prototype.trim
Trim(s) == TrimEnd(TrimStart(s))

\* String.prototype.includes
Includes(s, q) ==
    \E i \in 0..(Len(s) - Len(q)) : \A k \in 1..Len(q) : s[i + k] = q[k]

----------------------------------------------------------------------------
(* The table *)

RowIds == 1..MaxRows

Paracetamol == <<"P","a","r","a","c","e","t","a","m","o","l">>
Ibuprofen == <<"I","b","u","p","r","o","f","e","n">>
VitaminB12 == <<"V","i","t","a","m","i","n"," ","B"," ","1","2">>
B001 == <<"B","0","0","1">>
B002 == <<"B","0","0","2">>

\* The td cells of the tr elements: two full rows, a row with one cell and a
\* row with none (a header or placeholder row).
CellPool == << <<Paracetamol, B001>>, <<Ibuprofen, B002>>, <<VitaminB12>>, <<>> >>

\* row.querySelectorAll('td')
Cells(r) == CellPool[((r - 1) % Len(CellPool)) + 1]

\* cells[i]?.textContent || ''
CellText(r, i) == IF Len(Cells(r)) >= i THEN Cells(r)[i] ELSE <<>>

QChars == {"b", Space}

RECURSIVE SeqsUpTo(_, _)
SeqsUpTo(S, n) ==
    IF n = 0 THEN {<<>>}
    ELSE LET shorter == SeqsUpTo(S, n - 1)
         IN  shorter \cup {Append(s, c) : s \in shorter, c \in S}

ScenarioQueries ==
    { <<"p","a","r","a">>, <<"b","0","0">>, <<>>, <<"z","z","z">> }

\* Queries that need normalizing: upper case, and spaces on both sides.
EdgeQueries ==
    { <<"B">>, <<"P","a","r","a">>, <<Space,"B","0","0",Space>>, <<Space,"b",Space>> }

Queries == SeqsUpTo(QChars, MaxQueryLen) \cup ScenarioQueries \cup EdgeQueries

----------------------------------------------------------------------------
(* The row filter, lines 24-42 *)

\* line 30
NormalizeQuery(v) == ToLowerCase(Trim(v))

\* lines 33-35
RowMatchesMedOnly(r, q) ==
    \/ q = <<>>
    \/ Includes(ToLowerCase(CellText(r, 1)), q)
RowMatches(r, q) ==
    \/ q = <<>>
    \/ Includes(ToLowerCase(CellText(r, 1)), q)
    \/ Includes(ToLowerCase(CellText(r, 2)), q)

\* lines 35-39
RowDisplayHideOnly(r, q) == IF RowMatches(r, q) THEN display[r] ELSE "none"
RowDisplayToggle(r, q) ==
    IF RowMatches(r, q) THEN ""
    ELSE IF display[r] = "none" THEN "" ELSE "none"
RowDisplay(r, q) == IF RowMatches(r, q) THEN "" ELSE "none"

\* line 31: the rows the listener walks
LiveRows == tbody
FilteredRows == rows

\* lines 24-28: the DOMContentLoaded listener
DOMContentLoaded ==
    /\ ~loaded
    /\ loaded' = TRUE
    /\ IF ~searchPresent \/ ~tbodyPresent
         THEN UNCHANGED <<attached, rows>>
         ELSE /\ rows' = tbody
              /\ attached' = TRUE
    /\ lastEvt' = "load"
    /\ UNCHANGED <<searchPresent, tbodyPresent, tbody, display, searchValue, everHid,
                   again>>
    /\ UNCHANGED <<daysVars, formVars>>

\* lines 29-41: an input event on the search box, whose new value is v
Input(v) ==
    /\ searchPresent
    /\ attached
    /\ searchValue' = v
    /\ LET q == NormalizeQuery(v)
       IN  /\ display' = [r \in RowIds |->
                             IF r \in FilteredRows THEN RowDisplay(r, q) ELSE display[r]]
           /\ everHid' = (everHid \/ \E r \in FilteredRows : display'[r] = "none")
    /\ again' = (lastEvt = "input" /\ searchValue = v)
    /\ lastEvt' = "input"
    /\ UNCHANGED <<searchPresent, tbodyPresent, loaded, attached, tbody, rows>>
    /\ UNCHANGED <<daysVars, formVars>>

\* An input event on a page whose listener was not attached (line 27 returned):
\* no handler runs.
TypeUnattached(v) ==
    /\ searchPresent
    /\ loaded
    /\ ~attached
    /\ searchValue' = v
    /\ UNCHANGED lastEvt
    /\ UNCHANGED <<searchPresent, tbodyPresent, loaded, attached, tbody, rows,
                   display, everHid, again>>
    /\ UNCHANGED <<daysVars, formVars>>

\* Another script appends a tr element to the table body.
AddRow(r) ==
    /\ tbodyPresent
    /\ r \notin tbody
    /\ tbody' = tbody \cup {r}
    /\ UNCHANGED lastEvt
    /\ UNCHANGED <<searchPresent, tbodyPresent, loaded, attached, rows, display,
                   searchValue, everHid, again>>
    /\ UNCHANGED <<daysVars, formVars>>

\* Another script removes a tr element from the table body.
RemoveRow(r) ==
    /\ r \in tbody
    /\ tbody' = tbody \ {r}
    /\ UNCHANGED lastEvt
    /\ UNCHANGED <<searchPresent, tbodyPresent, loaded, attached, rows, display,
                   searchValue, everHid, again>>
    /\ UNCHANGED <<daysVars, formVars>>

----------------------------------------------------------------------------
(* onDaysChange, lines 1-4 *)

OnDaysChange ==
    /\ daysSubmits < MaxSubmits
    /\ daysSubmits' = IF daysFormPresent THEN daysSubmits + 1 ELSE daysSubmits
    /\ lastEvt' = "daysChange"
    /\ UNCHANGED <<daysFormPresent, filterVars, formVars>>

----------------------------------------------------------------------------
(* onUploaderSubmit, lines 6-21 *)

FieldNames == {"medicine_name", "batch_id", "expiry", "qty"}
Actions == {"add", "delete"}
MedValues == {"", "Paracetamol"}
BatchValues == {"", "B001"}
NoMsg == <<>>

\* The result of one call: how it ended, whether e.preventDefault() ran, the
\* dialog shown and its answer, and the "required" attributes left behind.
Outcome(r, p, d, m, req) ==
    [ret |-> r, prevented |-> p, dialog |-> d, msg |-> m, required |-> req]

\* A variant that lifts the constraints before asking.
SubmitOutcomeRemoveFirst(answer) ==
    IF checked # "delete" THEN Outcome("true", FALSE, "none", NoMsg, required)
    ELSE IF ~(FieldNames \subseteq fields)
           THEN Outcome("throw", FALSE, "none", NoMsg, required)
    ELSE IF ~answer
           THEN Outcome("false", TRUE, "declined", <<batchValue, medValue>>,
                        required \ {"expiry", "qty"})
    ELSE Outcome("true", FALSE, "accepted", <<batchValue, medValue>>,
                 required \ {"expiry", "qty"})

\* A variant that restores the constraints for the other actions.
SubmitOutcomeRestore(answer) ==
    IF checked # "delete"
      THEN Outcome("true", FALSE, "none", NoMsg,
                   required \cup (fields \cap {"expiry", "qty"}))
    ELSE IF ~(FieldNames \subseteq fields)
           THEN Outcome("throw", FALSE, "none", NoMsg, required)
    ELSE IF ~answer
           THEN Outcome("false", TRUE, "declined", <<batchValue, medValue>>, required)
    ELSE Outcome("true", FALSE, "accepted", <<batchValue, medValue>>,
                 required \ {"expiry", "qty"})

\* lines 8-20, with answer the value confirm() returns if it is called.
\* form.<name> of an absent control is undefined, and reading .value or
\* calling .removeAttribute on it throws a TypeError.
SubmitOutcome(answer) ==
    IF checked # "delete"                                           \* line 9
      THEN Outcome("true", FALSE, "none", NoMsg, required)          \* line 20
    ELSE IF "medicine_name" \notin fields                           \* line 10
      THEN Outcome("throw", FALSE, "none", NoMsg, required)
    ELSE IF "batch_id" \notin fields                                \* line 11
      THEN Outcome("throw", FALSE, "none", NoMsg, required)
    ELSE IF ~answer                                                 \* line 12
      THEN Outcome("false", TRUE, "declined", <<batchValue, medValue>>, required)
    ELSE IF "expiry" \notin fields                                  \* line 17
      THEN Outcome("throw", FALSE, "accepted", <<batchValue, medValue>>, required)
    ELSE IF "qty" \notin fields                                     \* line 18
      THEN Outcome("throw", FALSE, "accepted", <<batchValue, medValue>>,
                   required \ {"expiry"})
    ELSE Outcome("true", FALSE, "accepted", <<batchValue, medValue>>,
                 required \ {"expiry", "qty"})

OnUploaderSubmit(answer) ==
    /\ LET o == SubmitOutcome(answer)
       IN  /\ ret' = o.ret
           /\ defaultPrevented' = o.prevented
           /\ dialog' = o.dialog
           /\ confirmMsg' = o.msg
           /\ required' = o.required
           /\ deleteDone' = (deleteDone \/ (o.dialog = "accepted" /\ o.ret = "true"))
    /\ lastEvt' = "submit"
    /\ UNCHANGED <<fields, checked, medValue, batchValue>>
    /\ UNCHANGED <<filterVars, daysVars>>

\* The user picks an "action" radio.
SelectAction(a) ==
    /\ checked # a
    /\ checked' = a
    /\ lastEvt' = "other"
    /\ UNCHANGED <<fields, required, medValue, batchValue, ret, defaultPrevented,
                   dialog, confirmMsg, deleteDone>>
    /\ UNCHANGED <<filterVars, daysVars>>

\* The user fills in the medicine name and the batch id, where the form has them.
EditFields(m, b) ==
    /\ <<m, b>> # <<medValue, batchValue>>
    /\ m # medValue => "medicine_name" \in fields
    /\ b # batchValue => "batch_id" \in fields
    /\ medValue' = m
    /\ batchValue' = b
    /\ lastEvt' = "other"
    /\ UNCHANGED <<fields, required, checked, ret, defaultPrevented, dialog, confirmMsg,
                   deleteDone>>
    /\ UNCHANGED <<filterVars, daysVars>>

----------------------------------------------------------------------------
(* Specifications *)

InitFilterAny ==
    /\ searchPresent \in BOOLEAN
    /\ tbodyPresent \in BOOLEAN
    /\ loaded = FALSE
    /\ attached = FALSE
    /\ tbody \in (IF tbodyPresent THEN SUBSET RowIds ELSE {{}})
    /\ rows = {}
    /\ display \in [RowIds -> {"", "none"}]
    /\ searchValue = <<>>
    /\ everHid = FALSE
    /\ again = FALSE

\* The page of the scenario: both rows in the table (where there is one), all shown.
InitFilterScenario ==
    /\ searchPresent \in BOOLEAN
    /\ tbodyPresent \in BOOLEAN
    /\ loaded = FALSE
    /\ attached = FALSE
    /\ tbody = (IF tbodyPresent THEN {1, 2} ELSE {})
    /\ rows = {}
    /\ display = [r \in RowIds |-> ""]
    /\ searchValue = <<>>
    /\ everHid = FALSE
    /\ again = FALSE

InitDaysAny ==
    /\ daysFormPresent \in BOOLEAN
    /\ daysSubmits = 0

InitFormAny ==
    /\ fields \in SUBSET FieldNames
    /\ required \in SUBSET (fields \cap {"expiry", "qty"})
    /\ checked \in Actions \cup {"none"}
    /\ medValue = ""
    /\ batchValue = ""
    /\ ret = "none"
    /\ defaultPrevented = FALSE
    /\ dialog = "none"
    /\ confirmMsg = NoMsg
    /\ deleteDone = FALSE

\* The uploader form as the page serves it.
InitFormServed ==
    /\ fields = FieldNames
    /\ required = {"expiry", "qty"}
    /\ checked = "add"
    /\ medValue = ""
    /\ batchValue = ""
    /\ ret = "none"
    /\ defaultPrevented = FALSE
    /\ dialog = "none"
    /\ confirmMsg = NoMsg
    /\ deleteDone = FALSE

FilterNext ==
    \/ DOMContentLoaded
    \/ \E v \in Queries : Input(v)
    \/ \E v \in Queries : TypeUnattached(v)
    \/ \E r \in RowIds : AddRow(r)
    \/ \E r \in RowIds : RemoveRow(r)

\* The row filter on any page, the forms left alone.
InitFilter == InitFilterAny /\ InitFormServed /\ daysFormPresent = TRUE
              /\ daysSubmits = 0 /\ lastEvt = "none"
SpecFilter == InitFilter /\ [][FilterNext]_vars

\* Every handler of the file, on the scenario's table with its queries.
Init == InitFilterScenario /\ InitDaysAny /\ InitFormAny /\ lastEvt = "none"
Next ==
    \/ DOMContentLoaded
    \/ \E v \in ScenarioQueries : Input(v)
    \/ OnDaysChange
    \/ \E answer \in BOOLEAN : OnUploaderSubmit(answer)
    \/ \E a \in Actions \cup {"none"} : SelectAction(a)
    \/ \E m \in MedValues, b \in BatchValues : EditFields(m, b)
Spec == Init /\ [][Next]_vars

----------------------------------------------------------------------------
(* Properties of the row filter, checked under SpecFilter *)

Visible(r) == display[r] = ""
AfterInput == attached /\ lastEvt = "input"

\* v with the spaces at both ends removed, stated without the trimming
\* operators of the model: the slices v[i..j] that neither start nor end with
\* a space and leave only spaces outside them (the empty slice when j = i - 1).
TrimmedOf(v) ==
    { SubSeq(v, b[1], b[2]) :
        b \in { c \in (1..(Len(v) + 1)) \X (0..Len(v)) :
                  /\ c[2] >= c[1] - 1
                  /\ \A k \in 1..Len(v) : (k < c[1] \/ k > c[2]) => v[k] = Space
                  /\ c[2] >= c[1] => v[c[1]] # Space /\ v[c[2]] # Space } }

ContainsLowered(r, t) ==
    \/ Includes(ToLowerCase(CellText(r, 1)), ToLowerCase(t))
    \/ Includes(ToLowerCase(CellText(r, 2)), ToLowerCase(t))

\* C1 as stated: after the input handler ran with query Q, a snapshotted row
\* is visible iff Q is empty or the lowercased first or second cell contains
\* lowercased Q.
C1_VisibleIffContainsQuery ==
    AfterInput =>
        \A r \in rows : Visible(r) <=> (searchValue = <<>> \/ ContainsLowered(r, searchValue))

\* C1 amended: after the input handler ran with query Q, a snapshotted row is
\* visible iff Q with its surrounding spaces removed is empty or the lowercased
\* first or second cell (a missing cell being empty) contains it lowercased.
C1_VisibleIffContainsTrimmedQuery ==
    AfterInput =>
        /\ TrimmedOf(searchValue) # {}
        /\ \A t \in TrimmedOf(searchValue) :
              \A r \in rows : Visible(r) <=> (t = <<>> \/ ContainsLowered(r, t))

\* The scenario of C1: with both rows snapshotted, "para" shows only row 1.
C1_Witness ==
    /\ AfterInput
    /\ {1, 2} \subseteq rows
    /\ searchValue = <<"p","a","r","a">>
    /\ Visible(1)
    /\ ~Visible(2)

\* C5: after an input event whose query is the empty string, whatever the
\* earlier queries hid, every snapshotted row is visible.
C5_EmptyQueryShowsAll ==
    (AfterInput /\ searchValue = <<>>) => \A r \in rows : Visible(r)

C5_Witness ==
    /\ AfterInput
    /\ searchValue = <<>>
    /\ everHid
    /\ Cardinality(rows) >= 2
    /\ \A r \in rows : Visible(r)

\* C6: running the input handler a second time in a row with the same query
\* leaves the visibility of every row as the first run left it.
C6_FilterIdempotent ==
    [][(lastEvt = "input" /\ lastEvt' = "input" /\ searchValue' = searchValue)
          => display' = display]_vars

C6_Witness ==
    /\ AfterInput
    /\ again
    /\ \E r \in rows : Visible(r)
    /\ \E r \in rows : ~Visible(r)

\* C8: no step changes the visibility of a row outside the snapshot taken at
\* DOMContentLoaded, and every input event sets the visibility of every row of
\* the snapshot, whether or not the row is still in the table body.
C8_OnlySnapshotFiltered ==
    [][/\ \A r \in RowIds \ rows' : display'[r] = display[r]
       /\ (attached /\ searchPresent /\ lastEvt' = "input") =>
             \E t \in TrimmedOf(searchValue') :
                 \A r \in rows : (display'[r] = "") <=> (t = <<>> \/ ContainsLowered(r, t))
      ]_vars

\* A row added after the snapshot stays shown under a query it does not match
\* and another stays hidden under a query it matches, while a snapshotted row
\* that has left the table is hidden by the query.
C8_Witness ==
    /\ AfterInput
    /\ \E r \in tbody \ rows : Visible(r) /\ ~RowMatches(r, NormalizeQuery(searchValue))
    /\ \E r \in tbody \ rows : ~Visible(r) /\ RowMatches(r, NormalizeQuery(searchValue))
    /\ \E r \in rows \ tbody : ~Visible(r)

OnlySpaces(v) == v # <<>> /\ \A k \in 1..Len(v) : v[k] = Space
\* n is v without the spaces at its ends and in lower case: n lies in v at
\* some offset, letter for lowered letter, with only spaces around it, and
\* neither starts nor ends with a space.
IsNormalFormOf(n, v) ==
    /\ n # <<>> => n[1] # Space /\ n[Len(n)] # Space
    /\ \E i \in 0..(Len(v) - Len(n)) :
          /\ \A k \in 1..Len(n) : n[k] = LowerChar(v[i + k])
          /\ \A k \in 1..Len(v) : (k <= i \/ k > i + Len(n)) => v[k] = Space

\* C9: an input event whose query is the trimmed, lowercased form of the query
\* of the input event before it (or the other way round) leaves every row's
\* visibility as it was, and a query of spaces only shows every snapshotted row.
C9_QueryNormalized ==
    [][/\ (lastEvt = "input" /\ lastEvt' = "input"
             /\ (IsNormalFormOf(searchValue', searchValue)
                   \/ IsNormalFormOf(searchValue, searchValue')))
          => display' = display
       /\ (attached /\ lastEvt' = "input" /\ OnlySpaces(searchValue'))
          => \A r \in rows : display'[r] = ""
      ]_vars

\* The query " B00 " shows the rows whose batch contains "b00".
C9_Witness ==
    /\ AfterInput
    /\ searchValue = <<Space,"B","0","0",Space>>
    /\ {1, 2, 3} \subseteq rows
    /\ Visible(1) /\ Visible(2) /\ ~Visible(3)

----------------------------------------------------------------------------
(* Properties of the handlers of the forms, checked under Spec *)

Constrained == required \cap {"expiry", "qty"}

\* C2: a call with action "delete" whose confirmation the user declines
\* prevents the default, returns false and leaves the "required" attributes of
\* expiry and qty as they were.
C2_DeclinedDelete ==
    [][(lastEvt' = "submit" /\ checked = "delete" /\ dialog' = "declined")
          => /\ defaultPrevented'
             /\ ret' = "false"
             /\ required' = required]_vars

C2_Witness ==
    /\ lastEvt = "submit"
    /\ checked = "delete"
    /\ dialog = "declined"
    /\ confirmMsg = <<"B001", "Paracetamol">>
    /\ defaultPrevented
    /\ ret = "false"
    /\ Constrained = {"expiry", "qty"}

\* C3: after a call with action "delete" whose confirmation the user accepts,
\* neither expiry nor qty is required, the default is not prevented and the
\* handler has returned true.
C3_AcceptedDelete ==
    (lastEvt = "submit" /\ checked = "delete" /\ dialog = "accepted")
        => /\ Constrained = {}
           /\ ~defaultPrevented
           /\ ret = "true"

\* C4: a call with any other action, or with no radio checked, shows no
\* dialog, does not prevent the default, returns true and leaves "required"
\* alone; a dialog is shown iff the action is "delete".
C4_DialogIffDelete ==
    [][lastEvt' = "submit" =>
          /\ checked # "delete" =>
                /\ dialog' = "none"
                /\ ~defaultPrevented'
                /\ ret' = "true"
                /\ required' = required
          /\ dialog' # "none" <=> checked = "delete"]_vars

\* C7: no handler ever throws and a missing element makes its behaviour a
\* no-op: onDaysChange submits nothing without "daysForm", the filter is not
\* attached without "searchAll" or "allStockBody", and a delete submission
\* asks for confirmation with an absent medicine_name or batch_id read as "".
C7_MissingElementsSilent ==
    [][/\ ret' # "throw"
       /\ ~daysFormPresent => daysSubmits' = daysSubmits
       /\ ~(searchPresent /\ tbodyPresent) => ~attached'
       /\ (lastEvt' = "submit" /\ checked = "delete") =>
             /\ dialog' # "none"
             /\ confirmMsg' = <<batchValue, medValue>>]_vars

====
